---- MODULE Spec2Model ----
(***************************************************************************)
(* Two-tier conversational memory of VietMindAI: chat_history (short-term) *)
(* and vector_memories (long-term) with the consolidation run between      *)
(* them (app/services/memory_service.py) as driven by the request          *)
(* handlers of app/api/routers/memory.py.                                  *)
(*                                                                         *)
(* Every request owns one AsyncSession, i.e. one database transaction:     *)
(* rows it flushes are visible to its own later statements only, and reach *)
(* the tables at session.commit(); session.rollback() discards them.       *)
(* Statements of different requests interleave at every await.             *)
(***************************************************************************)
EXTENDS Integers, Sequences, FiniteSets, TLC

\* ------------------------------------------------------------------------
\* Program constants
\* ------------------------------------------------------------------------
stm_consolidation_threshold == 15
stm_max_threshold == 20
\* default of expires_in_hours in add_short_term_memory
DefaultExpiresInHours == 24
\* importances are kept in tenths: 10 stands for 1.0, 5 for the default 0.5
ImportanceOne == 10
DefaultImportance == 5
\* dimension of the embeddings: Vector(768), get_embedding_dimension
embedding_dimension == 768
\* short_term_limit, long_term_limit defaults of get_conversation_context
short_term_limit == 5
long_term_limit == 3
\* min_importance=0.3 of the long-term search of get_conversation_context
ContextMinImportance == 3

\* ------------------------------------------------------------------------
\* Bounds of the model
\* ------------------------------------------------------------------------
\* turns already stored for (user 1, session 1) when the run starts: 0..MaxSeed
MaxSeed == 20
\* requests accepted over a run
MaxRequests == 2
\* long-term memories already stored when a run of the long-term store
\* starts, requests accepted over such a run, hours its clock may advance
MaxLtmSeed == 3
MaxLtmRequests == 2
MaxHour == 1
\* turns already stored when a run of the short-term functions starts, and
\* the writing calls (adds, contexts) made over such a run
MaxStmSeed == 9
MaxStmRequests == 1
\* long-term memories a store of a run of get_long_term_memories is drawn from
MaxListSeed == 4
\* knowledge chunks a run of the vector store adds
MaxChunks == 2
\* calls of get_or_create_user accepted over a run of it
MaxUserRequests == 3
\* concurrently served requests (one AsyncSession each)
Procs == {1, 2}

\* Python None for ids and for expires_at / expires_in_hours
None == 0
NoExpiry == -1

\* ------------------------------------------------------------------------
\* State
\* ------------------------------------------------------------------------
VARIABLES
    users,            \* committed rows of table users (set of user_id)
    chat_history,     \* committed rows of table chat_history
    vector_memories,  \* committed rows of table vector_memories
    knowledge_chunks, \* committed rows of table knowledge_chunks
    now,              \* datetime.now(timezone.utc), in hours
    accepted,         \* requests accepted so far
    pc,               \* per request: the await it is suspended at
    req,              \* per request: handler and arguments
    tx,               \* per request: rows flushed but not committed
    loc               \* per request: local variables of the handler

vars == <<users, chat_history, vector_memories, knowledge_chunks, now,
          accepted, pc, req, tx, loc>>

\* ------------------------------------------------------------------------
\* Values
\* ------------------------------------------------------------------------
\* ChatHistory(message_id, user_id, session_id, turn_number, expires_at)
ChatHistory(mid, uid, sid, turn, exp) ==
    [message_id |-> mid, user_id |-> uid, session_id |-> sid,
     turn_number |-> turn, expires_at |-> exp]

\* the rows the run starts with: n turns of user 1, session 1, appended at
\* hour 0 through POST /memory/short-term with turn_number 0..n-1 and the
\* default expiry
SeedTurns(n) ==
    { ChatHistory(i, 1, 1, i - 1, DefaultExpiresInHours) : i \in 1..n }

\* the counts the run starts from: none, one, and those from which the
\* requests of a run can reach a threshold (from 2 .. threshold - 3 turns
\* every threshold test ends as it does from one turn)
SeedCounts ==
    { n \in 0..MaxSeed : n <= 1 \/ n >= stm_consolidation_threshold - 2 }

\* ins_*: rows inserted; upd_ltm: rows of vector_memories as updated;
\* del_ids: message_id of the rows of chat_history deleted
EmptyTx == [ins_users |-> {}, ins_turns |-> {}, ins_ltm |-> {}, upd_ltm |-> {},
            del_ids |-> {}]

\* what check_and_consolidate / consolidate_short_term_memories returned:
\* kind "None" is Python's None, kind "dict" a result dict; a key the dict
\* does not carry reads "absent" (forced) or 0 (the counts)
Result(kind, consolidated, reason, forced, stm_deleted, ltm_created) ==
    [kind |-> kind, consolidated |-> consolidated, reason |-> reason,
     forced |-> forced, stm_deleted |-> stm_deleted,
     ltm_created |-> ltm_created]

NoResult == Result("unset", FALSE, "", "absent", 0, 0)

EmptyLoc == [user_id |-> None, session_id |-> None,
             context |-> <<>>, relevant_ltm |-> {}, hits |-> <<>>,
             touched |-> {}, error |-> "none", appended |-> None,
             chk_count |-> -1, stm_count |-> -1, deleted_count |-> -1,
             force |-> FALSE,
             memories |-> <<>>, prompt |-> <<>>, llm |-> "unset",
             insights |-> <<>>, emb_fail |-> {}, created_ltm |-> <<>>,
             result |-> NoResult]

NoReq == [kind |-> "none", user_id |-> None, session_id |-> None,
          force |-> FALSE]

Init ==
    /\ users = {1, 2}
    /\ \E n \in SeedCounts : chat_history = SeedTurns(n)
    /\ vector_memories = {}
    /\ now = 0
    /\ accepted = 0
    /\ pc = [p \in Procs |-> "idle"]
    /\ req = [p \in Procs |-> NoReq]
    /\ tx = [p \in Procs |-> EmptyTx]
    /\ loc = [p \in Procs |-> EmptyLoc]
    /\ knowledge_chunks = {}

\* ------------------------------------------------------------------------
\* What a request's statements see and write
\* ------------------------------------------------------------------------
\* the rows a request would read if what it added were not flushed
CommittedVisibleTurns(p) ==
    { t \in chat_history : t.message_id \notin tx[p].del_ids }

\* rows of chat_history a statement of request p reads: the committed rows
\* and the rows p flushed, less the rows p deleted
VisibleTurns(p) ==
    { t \in chat_history \cup tx[p].ins_turns :
        t.message_id \notin tx[p].del_ids }

\* rows of vector_memories a statement of request p reads: a row p updated
\* is read as updated
VisibleMemories(p) ==
    { m \in vector_memories :
        \A u \in tx[p].upd_ltm : u.memory_id # m.memory_id }
    \cup tx[p].upd_ltm \cup tx[p].ins_ltm

\* a turn taken as live in the hour it expires
NotExpiredYet(t) == t.expires_at = NoExpiry \/ t.expires_at >= now

\* (expires_at IS NULL) | (expires_at > now)
NotExpired(t) == t.expires_at = NoExpiry \/ t.expires_at > now

\* the WHERE clause without the session condition
InScopeAnySession(t, uid, sid) ==
    /\ t.user_id = uid
    /\ NotExpired(t)

\* WHERE user_id = :u [AND session_id = :s] AND not expired
InScope(t, uid, sid) ==
    /\ t.user_id = uid
    /\ (sid # None => t.session_id = sid)
    /\ NotExpired(t)

\* the count taken without the expiry condition
count_stored_memories(p, uid, sid) ==
    Cardinality({ t \in VisibleTurns(p) :
                    t.user_id = uid /\ (sid # None => t.session_id = sid) })

\* MemoryService.count_short_term_memories
count_short_term_memories(p, uid, sid) ==
    Cardinality({ t \in VisibleTurns(p) : InScope(t, uid, sid) })

\* the rows of a result set, in some order (here that of their message_id,
\* the primary key)
Rows(S) ==
    LET ranked == { <<Cardinality({ u \in S : u.message_id < t.message_id }), t>>
                      : t \in S }
    IN  [k \in 1..Cardinality(S) |-> (CHOOSE r \in ranked : r[1] = k - 1)[2]]

\* a row comes before another under ORDER BY turn_number ASC; the order of
\* rows of equal turn_number is the database's, taken here by message_id
TurnBefore(a, b) ==
    \/ a.turn_number < b.turn_number
    \/ a.turn_number = b.turn_number /\ a.message_id < b.message_id

OrderByTurnAsc(S) == SortSeq(Rows(S), TurnBefore)

\* ORDER BY turn_number DESC
TurnAfter(a, b) == TurnBefore(b, a)
OrderByTurnDesc(S) == SortSeq(Rows(S), TurnAfter)

Limit(seq, n) == IF Len(seq) <= n THEN seq ELSE SubSeq(seq, 1, n)

\* the list as the query returned it
AsReturned(seq) == seq

\* reversed(recent_memories), line 436
Reversed(seq) == [i \in 1..Len(seq) |-> seq[Len(seq) + 1 - i]]

\* MemoryService.get_short_term_memories
get_short_term_memories(p, uid, sid, limit) ==
    Limit(OrderByTurnDesc({ t \in VisibleTurns(p) : InScope(t, uid, sid) }),
          limit)

\* sorted(memories, key=lambda m: m.turn_number): a stable sort, elements
\* of equal key keep their order (SortSeq moves an element only before
\* elements it is smaller than)
SmallerTurnNumber(a, b) == a.turn_number < b.turn_number

\* the sort taken with reverse=True
LargerTurnNumber(a, b) == a.turn_number > b.turn_number
SortedByTurnNumberReversed(memories) == SortSeq(memories, LargerTurnNumber)

SortedByTurnNumber(memories) == SortSeq(memories, SmallerTurnNumber)

Range(seq) == { seq[i] : i \in 1..Len(seq) }

MessageIds(seq) == { seq[i].message_id : i \in 1..Len(seq) }

\* ------------------------------------------------------------------------
\* uuid.uuid4(): a value no row and no request holds
\* ------------------------------------------------------------------------
Largest(S) == IF S = {} THEN 0 ELSE CHOOSE m \in S : \A x \in S : x <= m

FreshMessageId ==
    1 + Largest({ t.message_id : t \in chat_history }
                \cup UNION { { t.message_id : t \in tx[q].ins_turns }
                             \cup tx[q].del_ids
                             \cup MessageIds(loc[q].memories) : q \in Procs })

FreshMemoryId ==
    1 + Largest({ m.memory_id : m \in vector_memories }
                \cup UNION { { m.memory_id : m \in tx[q].ins_ltm } : q \in Procs })

\* an id taken again: the largest in use
UsedUserId == Largest(users \cup UNION { tx[q].ins_users : q \in Procs })

FreshUserId ==
    1 + Largest(users \cup UNION { tx[q].ins_users : q \in Procs })

FreshSessionId ==
    1 + Largest({ t.session_id : t \in chat_history }
                \cup { loc[q].session_id : q \in Procs })

\* ------------------------------------------------------------------------
\* Providers (external): every outcome they can have
\* ------------------------------------------------------------------------
\* insights a reply can carry; importance in tenths, not always in [0, 1]
Insight(type, content, summary, importance) ==
    [type |-> type, content |-> content, summary |-> summary,
     importance |-> importance]

TriggerInsight == Insight("trigger", "work deadlines", "deadline stress", 8)
FactInsight == Insight("fact", "lives in Hanoi", "hometown", 15)
GoalInsight == Insight("goal", "sleep earlier", "sleep goal", -3)
\* an item with only some of the keys
PartialInsight == [content |-> "likes tea"]
\* an item that is no JSON object, or whose importance is no number
MalformedItem == [malformed |-> TRUE]

\* the reply text as tokens: an optional opening markdown fence (three
\* backticks, with or without the word json), a body, an optional closing fence
Token(tok, kind, items) == [tok |-> tok, kind |-> kind, items |-> items]
FenceJson == Token("fence_json", "", <<>>)
Fence == Token("fence", "", <<>>)
Garbage == Token("text", "", <<>>)
JsonObject == Token("json", "object", <<>>)
JsonList(items) == Token("json", "list", items)

ReplyTexts ==
    { <<Garbage>>, <<>>, <<FenceJson, JsonObject, Fence>>,
      <<JsonList(<<>>)>>, <<Fence, JsonList(<<>>), Fence>>,
      <<FenceJson, JsonList(<<TriggerInsight>>), Fence>>,
      <<FenceJson, JsonList(<<FactInsight, GoalInsight>>)>>,
      <<JsonList(<<MalformedItem, PartialInsight>>)>> }

\* self._llm_service.generate_text_async(prompt) either raises or returns a
\* text. (The LLMService class of app/services/llm_service.py defines no
\* generate_text_async: with it as self._llm_service every call raises.)
LLMReplies ==
    { [raised |-> TRUE, text |-> <<>>] }
    \cup { [raised |-> FALSE, text |-> t] : t \in ReplyTexts }

\* the vector the Embedding Provider returns for a text in a mode
Embedding(text, task_type) ==
    [text |-> text, task_type |-> task_type, dimension |-> embedding_dimension]
embed_document(document) == Embedding(document, "RETRIEVAL_DOCUMENT")
embed_query(query) == Embedding(query, "RETRIEVAL_QUERY")

\* where the provider's vector for a text points: texts on one subject get
\* the same direction
Direction(text) ==
    CASE text = "tea" -> 0
      [] text = "likes tea" -> 0
      [] text = "coffee" -> 1
      [] text = "sleep earlier" -> 2
      [] text = "work deadlines" -> 3
      [] text = "deadline" -> 3
      [] OTHER -> 1

Abs(n) == IF n < 0 THEN 0 - n ELSE n

\* 1 - (embedding <=> query_embedding): larger for directions closer to each
\* other, on a scale that keeps the order only
Similarity(embedding, query_embedding) ==
    0 - Abs(Direction(embedding.text) - Direction(query_embedding.text))

\* ------------------------------------------------------------------------
\* MemoryService._summarize_memories_with_llm
\* ------------------------------------------------------------------------
\* lines 554-561: strip the markdown fences
StripFences(text) ==
    LET a == IF text # <<>> /\ Head(text) = FenceJson THEN Tail(text) ELSE text
        b == IF a # <<>> /\ Head(a) = Fence THEN Tail(a) ELSE a
        c == IF b # <<>> /\ b[Len(b)] = Fence THEN SubSeq(b, 1, Len(b) - 1) ELSE b
    IN  c

\* json.loads succeeds on exactly one JSON value
JsonLoads(cleaned) ==
    IF Len(cleaned) = 1 /\ cleaned[1].tok = "json"
    THEN [ok |-> TRUE, value |-> cleaned[1]]
    ELSE [ok |-> FALSE, value |-> Garbage]

\* the insights the method returns for a reply, and how the reply ended:
\* "raised" (except Exception, line 577), "decode_error" (JSONDecodeError,
\* line 571), "not_list" (line 565), "list"
SummarizeMemoriesWithLlm(reply) ==
    IF reply.raised THEN [insights |-> <<>>, llm |-> "raised"]
    ELSE LET parsed == JsonLoads(StripFences(reply.text))
         IN  IF ~parsed.ok THEN [insights |-> <<>>, llm |-> "decode_error"]
             ELSE IF parsed.value.kind # "list"
                  THEN [insights |-> <<>>, llm |-> "not_list"]
                  ELSE [insights |-> parsed.value.items, llm |-> "list"]

\* ------------------------------------------------------------------------
\* MemoryService.add_long_term_memory
\* ------------------------------------------------------------------------
Min(a, b) == IF a <= b THEN a ELSE b
Max(a, b) == IF a >= b THEN a ELSE b

\* the importance stored as given
Unclamped(importance) == importance

\* max(0.0, min(1.0, importance))
ClampImportance(importance) == Max(0, Min(ImportanceOne, importance))

VectorMemory(mid, uid, content, memory_type, summary, importance) ==
    [memory_id |-> mid, user_id |-> uid, content |-> content,
     memory_type |-> memory_type, summary |-> summary,
     importance |-> ClampImportance(importance),
     embedding |-> embed_document(content),
     access_count |-> 0, last_accessed |-> NoExpiry]

\* insight.get(key, default)
Get(insight, key, default) ==
    IF key \in DOMAIN insight THEN insight[key] ELSE default

IsWellFormed(insight) == "malformed" \notin DOMAIN insight

\* lines 658-672: one VectorMemory per insight; an insight whose
\* add_long_term_memory raises (a malformed item, an embedding failure at the
\* positions emb_fail) is logged and skipped
RECURSIVE CreateLtm(_, _, _, _, _)
CreateLtm(uid, insights, emb_fail, i, first_id) ==
    IF i > Len(insights) THEN <<>>
    ELSE IF ~IsWellFormed(insights[i]) \/ i \in emb_fail
         THEN CreateLtm(uid, insights, emb_fail, i + 1, first_id)
         ELSE <<VectorMemory(first_id, uid,
                             Get(insights[i], "content", ""),
                             Get(insights[i], "type", "general"),
                             Get(insights[i], "summary", ""),
                             Get(insights[i], "importance", DefaultImportance))>>
              \o CreateLtm(uid, insights, emb_fail, i + 1, first_id + 1)

\* ------------------------------------------------------------------------
\* MemoryService.search_long_term_memories
\* ------------------------------------------------------------------------
\* a WHERE clause without the importance condition
QualifiesAnyImportance(m, uid, min_importance) == m.user_id = uid

\* the WHERE clause of the search, lines 334-335
Qualifies(m, uid, min_importance) ==
    m.user_id = uid /\ m.importance >= min_importance

\* the results the similarity search can return (lines 325-342): the rows
\* of the user of at least min_importance, ORDER BY similarity DESC, LIMIT
\* limit; rows of equal similarity come in an order of the database's choice
search_long_term_memories(p, uid, query, min_importance, limit) ==
    LET query_embedding == embed_query(query)
        rows == { m \in VisibleMemories(p) :
                    Qualifies(m, uid, min_importance) }
        similarity(m) == Similarity(m.embedding, query_embedding)
        k == Min(limit, Cardinality(rows))
    IN  { hits \in [1..k -> rows] :
            /\ \A i, j \in 1..k :
                  i < j => /\ hits[i] # hits[j]
                           /\ similarity(hits[i]) >= similarity(hits[j])
            /\ \A m \in rows \ Range(hits) :
                  \A i \in 1..k : similarity(m) <= similarity(hits[i]) }

\* a bump of the counter that leaves last_accessed alone
AccessedCountOnly(m) == [m EXCEPT !.access_count = @ + 1]

\* lines 345-350: access_count += 1, last_accessed = now
Accessed(m) == [m EXCEPT !.access_count = @ + 1, !.last_accessed = now]

\* ------------------------------------------------------------------------
\* MemoryService.add_short_term_memory
\* ------------------------------------------------------------------------
\* `if expires_in_hours:` is false for None and for 0
Truthy(hours) == hours # NoExpiry /\ hours # 0

\* the row add_short_term_memory flushes; fresh_sid is the uuid4 taken when
\* no session_id is given
add_short_term_memory(mid, uid, sid, fresh_sid, turn_number, expires_in_hours) ==
    ChatHistory(mid, uid,
                IF sid # None THEN sid ELSE fresh_sid,
                turn_number,
                IF Truthy(expires_in_hours) THEN now + expires_in_hours
                ELSE NoExpiry)

\* ------------------------------------------------------------------------
\* Arguments the requests are called with
\* ------------------------------------------------------------------------
\* request.content of the chat requests (the query of their context)
ChatContent == "how are you"

ChatArgs ==
    { [user_id |-> 1, session_id |-> 1],
      [user_id |-> None, session_id |-> None] }
ConsolidateArgs ==
    { [user_id |-> 1, session_id |-> 1, force |-> FALSE],
      [user_id |-> 1, session_id |-> 1, force |-> TRUE] }
AppendArgs ==
    { [session_id |-> 1, turn_number |-> 0, expires_in_hours |-> NoExpiry],
      [session_id |-> 1, turn_number |-> 30, expires_in_hours |-> 1] }

\* ------------------------------------------------------------------------
\* Transactions
\* ------------------------------------------------------------------------
Set(f, p, field, value) == [f EXCEPT ![p][field] = value]

\* a commit that leaves out the DELETE of the transaction
TurnsWithoutDeletes(p) == chat_history \cup tx[p].ins_turns

\* session.commit(): the rows of the transaction reach the tables at once
CommittedTurns(p) == VisibleTurns(p)
CommittedMemories(p) == VisibleMemories(p)
CommittedUsers(p) == users \cup tx[p].ins_users

\* an accepted request is served by the free slot of lowest number
FreeSlot(p) == pc[p] = "idle" /\ \A q \in Procs : q < p => pc[q] # "idle"

\* the request is over: its session is closed, its locals are gone
Release(p) ==
    /\ pc' = [pc EXCEPT ![p] = "idle"]
    /\ req' = [req EXCEPT ![p] = NoReq]
    /\ tx' = [tx EXCEPT ![p] = EmptyTx]
    /\ loc' = [loc EXCEPT ![p] = EmptyLoc]

\* `await session.commit()` of the handlers
Commit(p) ==
    /\ pc[p] = "commit"
    /\ users' = CommittedUsers(p)
    /\ chat_history' = CommittedTurns(p)
    /\ vector_memories' = CommittedMemories(p)
    /\ Release(p)
    /\ UNCHANGED <<now, accepted>>
    /\ UNCHANGED knowledge_chunks

\* a storage error or the cancellation of the request at an await:
\* `await session.rollback()` of the handler (or session.close() of
\* get_session on cancellation) discards everything the request flushed
Rollback(p) ==
    /\ pc[p] # "idle"
    /\ Release(p)
    /\ UNCHANGED <<users, chat_history, vector_memories, now, accepted>>
    /\ UNCHANGED knowledge_chunks

\* ------------------------------------------------------------------------
\* POST /memory/short-term (create_short_term_memory): one insert, committed
\* ------------------------------------------------------------------------
CreateShortTermMemory ==
    /\ accepted < MaxRequests
    /\ \E args \in AppendArgs :
         chat_history' = chat_history \cup
             { add_short_term_memory(FreshMessageId, 1, args.session_id, None,
                                     args.turn_number, args.expires_in_hours) }
    /\ accepted' = accepted + 1
    /\ UNCHANGED <<users, vector_memories, now, pc, req, tx, loc>>
    /\ UNCHANGED knowledge_chunks

\* ------------------------------------------------------------------------
\* POST /memory/chat (process_chat)
\* ------------------------------------------------------------------------
\* request q has written the users row uid (UPDATE of last_interaction or
\* INSERT, flushed by get_or_create_user) and holds its row lock until it
\* commits or rolls back
HoldsUserRow(q, uid) ==
    /\ req[q].kind = "chat"
    /\ pc[q] # "idle"
    /\ loc[q].user_id = uid

\* lines 55-83: get_or_create_user, the session id, the conversation context
\* (the recent turns, the similar long-term memories and the update of their
\* access counts) and add_short_term_memory as process_chat calls it: no
\* turn_number, the default expiry. The request gets past the flush of
\* get_or_create_user once no other transaction holds the users row; what
\* follows reads the tables and writes only rows of its own transaction.
ProcessChat(p) ==
    /\ FreeSlot(p)
    /\ accepted < MaxRequests
    /\ \E args \in ChatArgs :
         LET new_user == args.user_id = None
             user_id == IF new_user THEN FreshUserId ELSE args.user_id
             session_id == IF args.session_id # None THEN args.session_id
                           ELSE FreshSessionId
             recent == get_short_term_memories(p, user_id, session_id,
                                               short_term_limit)
             memory == add_short_term_memory(FreshMessageId, user_id, session_id,
                                             None, 0, DefaultExpiresInHours)
         IN  /\ new_user \/ \A q \in Procs \ {p} : ~HoldsUserRow(q, user_id)
             /\ \E relevant_ltm \in search_long_term_memories(
                                        p, user_id, ChatContent,
                                        ContextMinImportance,
                                        long_term_limit) :
                  /\ req' = [req EXCEPT ![p] = [kind |-> "chat",
                                                user_id |-> args.user_id,
                                                session_id |-> args.session_id,
                                                force |-> FALSE]]
                  /\ tx' = [tx EXCEPT
                              ![p].ins_users =
                                  IF user_id \in users THEN {} ELSE {user_id},
                              ![p].upd_ltm =
                                  { Accessed(m) : m \in Range(relevant_ltm) },
                              ![p].ins_turns = {memory}]
                  /\ loc' = [loc EXCEPT
                               ![p].user_id = user_id,
                               ![p].session_id = session_id,
                               ![p].context = Reversed(recent),
                               ![p].relevant_ltm =
                                   { m.memory_id : m \in Range(relevant_ltm) },
                               ![p].appended = memory.message_id]
    /\ pc' = [pc EXCEPT ![p] = "check"]
    /\ accepted' = accepted + 1
    /\ UNCHANGED <<users, chat_history, vector_memories, now>>
    /\ UNCHANGED knowledge_chunks

\* ------------------------------------------------------------------------
\* MemoryService.check_and_consolidate
\* ------------------------------------------------------------------------
\* both comparisons taken strictly (> for >=)
CheckBranchStrict(stm_count) ==
    IF stm_count > stm_max_threshold THEN "force"
    ELSE IF stm_count > stm_consolidation_threshold THEN "consolidate"
    ELSE "none"

\* the soft threshold tested before the hard one
CheckBranchSoftFirst(stm_count) ==
    IF stm_count >= stm_consolidation_threshold THEN "consolidate"
    ELSE IF stm_count >= stm_max_threshold THEN "force"
    ELSE "none"

\* the count never looked at
CheckBranchNone(stm_count) == "none"

\* lines 723-744: which branch a count takes
CheckBranch(stm_count) ==
    IF stm_count >= stm_max_threshold THEN "force"
    ELSE IF stm_count >= stm_consolidation_threshold THEN "consolidate"
    ELSE "none"

\* lines 716-744: the count; below both thresholds the method returns None,
\* otherwise it goes on into consolidate_short_term_memories
CheckAndConsolidate(p) ==
    /\ pc[p] = "check"
    /\ LET stm_count == count_short_term_memories(p, loc[p].user_id,
                                                  loc[p].session_id)
           branch == CheckBranch(stm_count)
       IN  IF branch = "none"
           THEN /\ loc' = [loc EXCEPT ![p].chk_count = stm_count,
                                      ![p].result =
                                          Result("None", FALSE, "", "absent", 0, 0)]
                /\ pc' = [pc EXCEPT ![p] = "commit"]
           ELSE /\ loc' = [loc EXCEPT ![p].chk_count = stm_count,
                                      ![p].force = (branch = "force")]
                /\ pc' = [pc EXCEPT ![p] = "count"]
    /\ UNCHANGED <<users, chat_history, vector_memories, now, accepted,
                   req, tx>>
    /\ UNCHANGED knowledge_chunks

\* ------------------------------------------------------------------------
\* POST /memory/consolidate/{user_id} (consolidate_memories)
\* ------------------------------------------------------------------------
StartConsolidate(p) ==
    /\ FreeSlot(p)
    /\ accepted < MaxRequests
    /\ \E args \in ConsolidateArgs :
         /\ req' = [req EXCEPT ![p] = [kind |-> "consolidate",
                                       user_id |-> args.user_id,
                                       session_id |-> args.session_id,
                                       force |-> args.force]]
         /\ loc' = [loc EXCEPT ![p].user_id = args.user_id,
                               ![p].session_id = args.session_id,
                               ![p].force = args.force]
    /\ pc' = [pc EXCEPT ![p] = "count"]
    /\ accepted' = accepted + 1
    /\ UNCHANGED <<users, chat_history, vector_memories, now, tx>>
    /\ UNCHANGED knowledge_chunks

\* ------------------------------------------------------------------------
\* MemoryService.consolidate_short_term_memories, await by await
\* ------------------------------------------------------------------------
\* a run that goes from the count straight to the DELETE
AfterCountSkippingSummary(should_consolidate) ==
    IF should_consolidate THEN "delete" ELSE "commit"

\* lines 614-627: below the threshold and not forced the method returns,
\* otherwise it goes on to read the snapshot
AfterCount(should_consolidate) ==
    IF should_consolidate THEN "select" ELSE "commit"

\* every run consolidates, whatever its count
ShouldConsolidateAlways(force, stm_count) == TRUE

\* force not looked at
ShouldConsolidateAtThreshold(force, stm_count) ==
    stm_count >= stm_consolidation_threshold

\* line 612: should_consolidate
ShouldConsolidate(force, stm_count) ==
    force \/ stm_count >= stm_consolidation_threshold

\* lines 604-623: the count and the threshold test
ConsolidateCount(p) ==
    /\ pc[p] = "count"
    /\ LET stm_count == count_short_term_memories(p, loc[p].user_id,
                                                  loc[p].session_id)
           should_consolidate == ShouldConsolidate(loc[p].force, stm_count)
       IN  IF ~should_consolidate
           THEN /\ loc' = [loc EXCEPT ![p].stm_count = stm_count,
                                      ![p].result =
                                          Result("dict", FALSE, "Below threshold",
                                                 "absent", 0, 0)]
                /\ pc' = [pc EXCEPT ![p] = AfterCount(should_consolidate)]
           ELSE /\ loc' = [loc EXCEPT ![p].stm_count = stm_count]
                /\ pc' = [pc EXCEPT ![p] = AfterCount(should_consolidate)]
    /\ UNCHANGED <<users, chat_history, vector_memories, now, accepted,
                   req, tx>>
    /\ UNCHANGED knowledge_chunks

\* lines 629-672: the snapshot is read; the Summarization Provider is
\* called with its turns in sorted order and its reply parsed; one long-term
\* memory is flushed for every insight whose add_long_term_memory does not
\* raise. The provider calls and the flushes touch nothing another request
\* reads, so they are taken in one step with the SELECT before them.
ConsolidateSummarize(p) ==
    /\ pc[p] = "select"
    /\ LET memories == OrderByTurnAsc({ t \in VisibleTurns(p) :
                           InScope(t, loc[p].user_id, loc[p].session_id) })
       IN  IF memories = <<>>
           THEN /\ pc' = [pc EXCEPT ![p] = "commit"]
                /\ UNCHANGED tx
                /\ loc' = [loc EXCEPT ![p].result =
                               Result("dict", FALSE, "No memories to consolidate",
                                      "absent", 0, 0)]
           ELSE /\ pc' = [pc EXCEPT ![p] = "delete"]
                /\ \E reply \in LLMReplies :
                     LET out == SummarizeMemoriesWithLlm(reply)
                     IN  \E emb_fail \in SUBSET (1..Len(out.insights)) :
                           LET created == CreateLtm(loc[p].user_id, out.insights,
                                                    emb_fail, 1, FreshMemoryId)
                           IN  /\ tx' = Set(tx, p, "ins_ltm",
                                            tx[p].ins_ltm \cup Range(created))
                               /\ loc' = [loc EXCEPT
                                            ![p].memories = memories,
                                            ![p].prompt = SortedByTurnNumber(memories),
                                            ![p].llm = out.llm,
                                            ![p].insights = out.insights,
                                            ![p].created_ltm = created,
                                            ![p].emb_fail = emb_fail]
    /\ UNCHANGED <<users, chat_history, vector_memories, now, accepted, req>>
    /\ UNCHANGED knowledge_chunks

\* the DELETE written with the WHERE clause of the SELECT (the scope) in
\* place of the ids the SELECT returned
DeleteIdsInScope(p) ==
    { t.message_id : t \in { u \in VisibleTurns(p) :
                               InScope(u, loc[p].user_id, loc[p].session_id) } }

\* the DELETE skipped when no insight was extracted
DeleteIdsWhenInsights(p) ==
    IF loc[p].insights = <<>> THEN {} ELSE MessageIds(loc[p].memories)

\* the ids the DELETE names (line 676)
DeleteIds(p) == MessageIds(loc[p].memories)

\* bool(x) as the "forced" key of the result shows it
BoolKey(b) == IF b THEN "true" ELSE "false"

\* lines 674-691: DELETE ... WHERE message_id IN (snapshot ids). The
\* statement waits while another transaction holds a row it names (a row
\* that transaction deleted and has not yet committed)
ConsolidateDelete(p) ==
    /\ pc[p] = "delete"
    /\ \A q \in Procs \ {p} : tx[q].del_ids \cap DeleteIds(p) = {}
    /\ LET deleted == { t \in VisibleTurns(p) : t.message_id \in DeleteIds(p) }
       IN  /\ tx' = Set(tx, p, "del_ids", tx[p].del_ids \cup DeleteIds(p))
           /\ loc' = [loc EXCEPT ![p].result =
                          Result("dict", TRUE, "", BoolKey(loc[p].force),
                                 Cardinality(deleted),
                                 Len(loc[p].created_ltm))]
    /\ pc' = [pc EXCEPT ![p] = "commit"]
    /\ UNCHANGED <<users, chat_history, vector_memories, now, accepted,
                   req>>
    /\ UNCHANGED knowledge_chunks

\* ------------------------------------------------------------------------
\* Time
\* ------------------------------------------------------------------------
\* an hour passes; hours at whose end no stored turn expires change nothing
\* a request can see and are not taken
Tick ==
    /\ \E t \in chat_history : t.expires_at = now + 1
    /\ now' = now + 1
    /\ UNCHANGED <<users, chat_history, vector_memories, accepted, pc, req, tx,
                   loc>>
    /\ UNCHANGED knowledge_chunks

Next ==
    \/ CreateShortTermMemory
    \/ Tick
    \/ \E p \in Procs :
         \/ ProcessChat(p)
         \/ CheckAndConsolidate(p)
         \/ StartConsolidate(p)
         \/ ConsolidateCount(p)
         \/ ConsolidateSummarize(p)
         \/ ConsolidateDelete(p)
         \/ Commit(p)
         \/ Rollback(p)

Spec == Init /\ [][Next]_vars

\* every await of a request returns: the store answers each statement (once
\* the locks it waits for are released), the providers answer each call and
\* the handler's commit ends
Fairness ==
    \A p \in Procs :
       /\ WF_vars(CheckAndConsolidate(p))
       /\ WF_vars(ConsolidateCount(p))
       /\ WF_vars(ConsolidateSummarize(p))
       /\ WF_vars(ConsolidateDelete(p))
       /\ WF_vars(Commit(p))

\* the runs checked for termination start with one stored turn (a forced
\* run has something to summarise) or one turn below the threshold (the
\* next chat turn makes check_and_consolidate consolidate)
FairSeedCounts ==
    { n \in SeedCounts : n = 1 \/ n = stm_consolidation_threshold - 1 }

InitFair == Init /\ Cardinality(chat_history) \in FairSeedCounts

SpecFair == InitFair /\ [][Next]_vars /\ Fairness

\* ------------------------------------------------------------------------
\* Requests one after the other: a request is accepted only when no other
\* is in progress, and turns are appended by process_chat only (no
\* POST /memory/short-term). The session starts below the soft threshold.
\* Every turn carries the default expiry of 24 hours, which no run here
\* reaches, so the clock stands still.
\* ------------------------------------------------------------------------
Quiet == \A q \in Procs : pc[q] = "idle"

SeqSeedCounts == { n \in SeedCounts : n < stm_consolidation_threshold }

InitSeq == Init /\ Cardinality(chat_history) \in SeqSeedCounts

ChatAlone(p) == Quiet /\ ProcessChat(p)

ConsolidateAlone(p) == Quiet /\ StartConsolidate(p)

NextSeq ==
    \E p \in Procs :
         \/ ChatAlone(p)
         \/ ConsolidateAlone(p)
         \/ CheckAndConsolidate(p)
         \/ ConsolidateCount(p)
         \/ ConsolidateSummarize(p)
         \/ ConsolidateDelete(p)
         \/ Commit(p)
         \/ Rollback(p)

SpecSeq == InitSeq /\ [][NextSeq]_vars

\* ------------------------------------------------------------------------
\* POST /memory/consolidate/{user_id}?force=true over a store that holds
\* turns of two users in two sessions each and a long-term memory of each
\* user, with and without session_id, by concurrent requests
\* ------------------------------------------------------------------------
MaxScopeRequests == 2

ScopeUsers == {1, 2}

ScopeSessions == {1, 2}

ScopeSeedTurns ==
    { ChatHistory(2 * (u - 1) + s, u, s, 0, DefaultExpiresInHours) :
        u \in ScopeUsers, s \in ScopeSessions }

ScopeSeedMemories ==
    { VectorMemory(u, u, "tea", "fact", "", DefaultImportance) : u \in ScopeUsers }

ScopeArgs ==
    { [user_id |-> u, session_id |-> s, force |-> TRUE] :
        u \in ScopeUsers, s \in {None, 1} }

InitScope ==
    /\ users = ScopeUsers
    /\ chat_history = ScopeSeedTurns
    /\ vector_memories = ScopeSeedMemories
    /\ now = 0
    /\ accepted = 0
    /\ pc = [p \in Procs |-> "idle"]
    /\ req = [p \in Procs |-> NoReq]
    /\ tx = [p \in Procs |-> EmptyTx]
    /\ loc = [p \in Procs |-> EmptyLoc]
    /\ knowledge_chunks = {}

StartScopedConsolidate(p) ==
    /\ FreeSlot(p)
    /\ accepted < MaxScopeRequests
    /\ \E args \in ScopeArgs :
         /\ req' = [req EXCEPT ![p] = [kind |-> "consolidate",
                                       user_id |-> args.user_id,
                                       session_id |-> args.session_id,
                                       force |-> args.force]]
         /\ loc' = [loc EXCEPT ![p].user_id = args.user_id,
                               ![p].session_id = args.session_id,
                               ![p].force = args.force]
    /\ pc' = [pc EXCEPT ![p] = "count"]
    /\ accepted' = accepted + 1
    /\ UNCHANGED <<users, chat_history, vector_memories, now, tx>>
    /\ UNCHANGED knowledge_chunks

NextScope ==
    \E p \in Procs :
       \/ StartScopedConsolidate(p)
       \/ ConsolidateCount(p)
       \/ ConsolidateSummarize(p)
       \/ ConsolidateDelete(p)
       \/ Commit(p)
       \/ Rollback(p)

SpecScope == InitScope /\ [][NextScope]_vars

\* ------------------------------------------------------------------------
\* The long-term store on its own: add_long_term_memory and
\* search_long_term_memories called by concurrent requests
\* ------------------------------------------------------------------------
\* what embed_document_async can do for a document: raise, return a vector
\* of the configured dimension, return a vector of another dimension
EmbedReplies(document) ==
    { [raised |-> TRUE, vector |-> embed_document(document)],
      [raised |-> FALSE, vector |-> embed_document(document)],
      [raised |-> FALSE,
       vector |-> [embed_document(document) EXCEPT
                     !.dimension = embedding_dimension - 1]] }

\* a column of any dimension
FitsAnyColumn(embedding) == TRUE

\* Vector(768): the column takes vectors of that dimension only; the flush
\* of any other raises
FitsColumn(embedding) == embedding.dimension = embedding_dimension

LtmContents == <<"coffee", "tea", "deadline">>

\* the i-th long-term memory stored before the run, as add_long_term_memory
\* stored it
SeedMemory(i) ==
    VectorMemory(i, IF i = 3 THEN 2 ELSE 1, LtmContents[(i % 3) + 1],
                 "fact", "", (i * 3) % 11)

AddArgs ==
    { [user_id |-> 1, content |-> c, importance |-> i] :
        c \in {"tea"}, i \in {0 - 3, 5, 15} }

SearchArgs ==
    { [user_id |-> u, query |-> q, min_importance |-> m, limit |-> l] :
        u \in {1, 2}, q \in {"tea", "deadline"}, m \in {0, 4},
        l \in {1, 2} }

InitLtm ==
    /\ users = {1, 2}
    /\ chat_history = {}
    /\ \E n \in 0..MaxLtmSeed :
          vector_memories = { SeedMemory(i) : i \in 1..n }
    /\ now = 0
    /\ accepted = 0
    /\ pc = [p \in Procs |-> "idle"]
    /\ req = [p \in Procs |-> NoReq]
    /\ tx = [p \in Procs |-> EmptyTx]
    /\ loc = [p \in Procs |-> EmptyLoc]
    /\ knowledge_chunks = {}

\* add_long_term_memory (lines 238-260) called by a request: the embedding,
\* the VectorMemory, session.add and the flush. A failure of the embedding
\* or of the flush is logged and raised again
AddLongTermMemory(p) ==
    /\ FreeSlot(p)
    /\ accepted < MaxLtmRequests
    /\ \E args \in AddArgs :
         \E reply \in EmbedReplies(args.content) :
            LET memory == [VectorMemory(FreshMemoryId, args.user_id,
                                        args.content, "fact", "",
                                        args.importance)
                             EXCEPT !.embedding = reply.vector]
            IN  /\ req' = [req EXCEPT ![p] =
                              [kind |-> "add", user_id |-> args.user_id,
                               content |-> args.content,
                               importance |-> args.importance]]
                /\ IF reply.raised
                   THEN /\ loc' = Set(loc, p, "error", "embedding")
                        /\ pc' = [pc EXCEPT ![p] = "failed"]
                        /\ UNCHANGED tx
                   ELSE IF ~FitsColumn(memory.embedding)
                   THEN /\ loc' = Set(loc, p, "error", "flush")
                        /\ pc' = [pc EXCEPT ![p] = "failed"]
                        /\ UNCHANGED tx
                   ELSE /\ tx' = Set(tx, p, "ins_ltm", {memory})
                        /\ pc' = [pc EXCEPT ![p] = "commit"]
                        /\ UNCHANGED loc
    /\ accepted' = accepted + 1
    /\ UNCHANGED <<users, chat_history, vector_memories, now>>
    /\ UNCHANGED knowledge_chunks

\* search_long_term_memories, lines 324-350: the query embedding, the SELECT
\* and the loop that bumps the rows it returned (in the session, not yet in
\* the database)
SearchLongTermMemories(p) ==
    /\ FreeSlot(p)
    /\ accepted < MaxLtmRequests
    /\ \E args \in SearchArgs :
         /\ req' = [req EXCEPT ![p] =
                       [kind |-> "search", user_id |-> args.user_id,
                        query |-> args.query,
                        min_importance |-> args.min_importance,
                        limit |-> args.limit]]
         /\ \/ /\ loc' = Set(loc, p, "error", "embedding")
               /\ pc' = [pc EXCEPT ![p] = "failed"]
            \/ \E hits \in search_long_term_memories(
                               p, args.user_id, args.query,
                               args.min_importance, args.limit) :
                  /\ loc' = [loc EXCEPT
                               ![p].hits = hits,
                               ![p].relevant_ltm =
                                   { m.memory_id : m \in Range(hits) },
                               ![p].touched =
                                   { Accessed(m) : m \in Range(hits) }]
                  /\ pc' = [pc EXCEPT ![p] = "flush"]
    /\ accepted' = accepted + 1
    /\ UNCHANGED <<users, chat_history, vector_memories, now, tx>>
    /\ UNCHANGED knowledge_chunks

\* line 352, session.flush(): one UPDATE per bumped row, SET access_count
\* and last_accessed to the values the loop computed. It waits while another
\* transaction holds one of the rows (updated it and has not ended)
SearchFlush(p) ==
    /\ pc[p] = "flush"
    /\ \A q \in Procs \ {p} :
          \A u \in tx[q].upd_ltm : u.memory_id \notin loc[p].relevant_ltm
    /\ tx' = Set(tx, p, "upd_ltm", loc[p].touched)
    /\ pc' = [pc EXCEPT ![p] = "commit"]
    /\ UNCHANGED <<users, chat_history, vector_memories, now, accepted,
                   req, loc>>
    /\ UNCHANGED knowledge_chunks

\* an hour passes
HourPasses ==
    /\ now < MaxHour
    /\ now' = now + 1
    /\ UNCHANGED <<users, chat_history, vector_memories, accepted, pc, req, tx,
                   loc>>
    /\ UNCHANGED knowledge_chunks

NextLtm ==
    \/ HourPasses
    \/ \E p \in Procs :
         \/ AddLongTermMemory(p)
         \/ SearchLongTermMemories(p)
         \/ SearchFlush(p)
         \/ Commit(p)
         \/ Rollback(p)

SpecLtm == InitLtm /\ [][NextLtm]_vars

\* ------------------------------------------------------------------------
\* The short-term functions on their own: add_short_term_memory,
\* get_short_term_memories, count_short_term_memories and
\* get_conversation_context, each called in a session of its own and
\* committed; req and loc of the caller hold the arguments and the value
\* returned by the last call
\* ------------------------------------------------------------------------
Caller == 1

\* the i-th turn stored before the run: two users, two sessions, turn numbers
\* in no order of insertion, no expiry or an expiry after one or two hours
StmSeed(i) ==
    ChatHistory(i,
                IF i % 4 = 0 THEN 2 ELSE 1,
                IF i % 5 = 0 THEN 2 ELSE 1,
                (i * 3) % 7,
                CASE i % 3 = 0 -> 1 [] i % 3 = 1 -> NoExpiry [] OTHER -> 2)

StmAddArgs ==
    { [kind |-> "add", user_id |-> 1, session_id |-> s, turn_number |-> t,
       expires_in_hours |-> h] :
        s \in {None, 1}, t \in {7}, h \in {NoExpiry, 0, 2} }

StmGetArgs ==
    { [kind |-> "get", user_id |-> u, session_id |-> s, limit |-> l] :
        u \in {1, 2}, s \in {None, 1, 2}, l \in {1, 5, 10} }

StmCountArgs ==
    { [kind |-> "count", user_id |-> u, session_id |-> s] :
        u \in {1, 2}, s \in {None, 1, 2} }

StmContextArgs ==
    { [kind |-> "context", user_id |-> u, session_id |-> s] :
        u \in {1, 2}, s \in {None, 1} }

InitStm ==
    /\ users = {1, 2}
    /\ \E n \in 0..MaxStmSeed : chat_history = { StmSeed(i) : i \in 1..n }
    /\ vector_memories \in { {}, {SeedMemory(1)} }
    /\ now = 0
    /\ accepted = 0
    /\ pc = [p \in Procs |-> "idle"]
    /\ req = [p \in Procs |-> NoReq]
    /\ tx = [p \in Procs |-> EmptyTx]
    /\ loc = [p \in Procs |-> EmptyLoc]
    /\ knowledge_chunks = {}

\* add_short_term_memory, lines 111-130, committed by its caller
AddShortTermMemory ==
    /\ accepted < MaxStmRequests
    /\ \E args \in StmAddArgs :
         LET memory == add_short_term_memory(
                           FreshMessageId, args.user_id, args.session_id,
                           FreshSessionId, args.turn_number,
                           args.expires_in_hours)
         IN  /\ chat_history' = chat_history \cup {memory}
             /\ req' = [req EXCEPT ![Caller] = args]
             /\ loc' = [loc EXCEPT ![Caller] =
                           [EmptyLoc EXCEPT !.appended = memory.message_id]]
    /\ accepted' = accepted + 1
    /\ UNCHANGED <<users, vector_memories, now, pc, tx>>
    /\ UNCHANGED knowledge_chunks

\* get_short_term_memories, lines 154-172
GetShortTermMemories ==
    /\ \E args \in StmGetArgs :
         /\ req' = [req EXCEPT ![Caller] = args]
         /\ loc' = [loc EXCEPT ![Caller] =
                       [EmptyLoc EXCEPT !.memories =
                           get_short_term_memories(Caller, args.user_id,
                                                   args.session_id,
                                                   args.limit)]]
    /\ UNCHANGED <<users, chat_history, vector_memories, now, accepted, pc,
                   tx>>
    /\ UNCHANGED knowledge_chunks

\* count_short_term_memories, lines 473-493
CountShortTermMemories ==
    /\ \E args \in StmCountArgs :
         /\ req' = [req EXCEPT ![Caller] = args]
         /\ loc' = [loc EXCEPT ![Caller] =
                       [EmptyLoc EXCEPT !.stm_count =
                           count_short_term_memories(Caller, args.user_id,
                                                     args.session_id)]]
    /\ UNCHANGED <<users, chat_history, vector_memories, now, accepted, pc,
                   tx>>
    /\ UNCHANGED knowledge_chunks

\* get_conversation_context, lines 411-452, with the defaults of its limits:
\* the recent turns, the search (which bumps the memories it returns, or
\* raises with the query embedding) and the two lists of the dict
GetConversationContext ==
    /\ accepted < MaxStmRequests
    /\ \E args \in StmContextArgs :
         LET recent_memories ==
                 get_short_term_memories(Caller, args.user_id,
                                         args.session_id, short_term_limit)
         IN  /\ req' = [req EXCEPT ![Caller] = args]
             /\ \/ /\ loc' = [loc EXCEPT ![Caller] =
                                 [EmptyLoc EXCEPT !.error = "embedding"]]
                   /\ UNCHANGED vector_memories
                \/ \E relevant_ltm \in search_long_term_memories(
                                           Caller, args.user_id, ChatContent,
                                           ContextMinImportance,
                                           long_term_limit) :
                      /\ loc' = [loc EXCEPT ![Caller] =
                                    [EmptyLoc EXCEPT
                                       !.context = Reversed(recent_memories),
                                       !.hits = relevant_ltm,
                                       !.result = Result("dict", FALSE, "",
                                                         "absent", 0, 0)]]
                      /\ vector_memories' =
                            (vector_memories \ Range(relevant_ltm))
                            \cup { Accessed(m) : m \in Range(relevant_ltm) }
    /\ accepted' = accepted + 1
    /\ UNCHANGED <<users, chat_history, now, pc, tx>>
    /\ UNCHANGED knowledge_chunks

\* a DELETE that spares the turns expiring in the current hour
IsExpiredBefore(t) == t.expires_at # NoExpiry /\ t.expires_at < now

\* expires_at IS NOT NULL AND expires_at <= now, lines 373-376
IsExpired(t) == t.expires_at # NoExpiry /\ t.expires_at <= now

StmCleanupArgs == [kind |-> "cleanup", user_id |-> None, session_id |-> None]

\* POST /memory/cleanup: cleanup_expired_memories (lines 372-382), committed
CleanupExpiredMemories ==
    /\ LET deleted == { t \in chat_history : IsExpired(t) }
       IN  /\ chat_history' = chat_history \ deleted
           /\ req' = [req EXCEPT ![Caller] = StmCleanupArgs]
           /\ loc' = [loc EXCEPT ![Caller] =
                         [EmptyLoc EXCEPT
                            !.deleted_count = Cardinality(deleted)]]
    /\ UNCHANGED <<users, vector_memories, now, accepted, pc, tx>>
    /\ UNCHANGED knowledge_chunks

NextStm ==
    \/ AddShortTermMemory
    \/ CleanupExpiredMemories
    \/ GetShortTermMemories
    \/ CountShortTermMemories
    \/ GetConversationContext
    \/ HourPasses

SpecStm == InitStm /\ [][NextStm]_vars

\* ------------------------------------------------------------------------
\* get_long_term_memories on its own, over stores drawn from a family of
\* memories of two users, two types and equal and different importances
\* ------------------------------------------------------------------------
\* no memory_type given (None or the empty string: `if memory_type:`)
NoType == ""

\* the i-th memory of the family, the i-th inserted
ListSeed(i) ==
    VectorMemory(i, IF i % 4 = 0 THEN 2 ELSE 1, LtmContents[(i % 3) + 1],
                 IF i % 2 = 0 THEN "fact" ELSE "preference", "",
                 IF i % 3 = 0 THEN 8 ELSE 5)

ListArgs ==
    { [kind |-> "list", user_id |-> u, session_id |-> None,
       memory_type |-> t, min_importance |-> m, limit |-> l] :
        u \in {1, 2}, t \in {NoType, "fact", "preference"}, m \in {0, 6},
        l \in {1, 2, 20} }

\* the results the statement of lines 281-290 can return: the rows of the
\* user (of the type, when one is given) of at least min_importance, ORDER BY
\* importance DESC, LIMIT limit. The statement names no second sort key:
\* rows of equal importance come in an order of the database's choice
get_long_term_memories(p, uid, memory_type, min_importance, limit) ==
    LET rows == { m \in VisibleMemories(p) :
                    /\ m.user_id = uid
                    /\ memory_type # NoType => m.memory_type = memory_type
                    /\ m.importance >= min_importance }
        k == Min(limit, Cardinality(rows))
    IN  { memories \in [1..k -> rows] :
            /\ \A i, j \in 1..k :
                  i < j => /\ memories[i] # memories[j]
                           /\ memories[i].importance >= memories[j].importance
            /\ \A m \in rows \ Range(memories) :
                  \A i \in 1..k : m.importance <= memories[i].importance }

InitList ==
    /\ users = {1, 2}
    /\ chat_history = {}
    /\ vector_memories \in SUBSET { ListSeed(i) : i \in 1..MaxListSeed }
    /\ now = 0
    /\ accepted = 0
    /\ pc = [p \in Procs |-> "idle"]
    /\ req = [p \in Procs |-> NoReq]
    /\ tx = [p \in Procs |-> EmptyTx]
    /\ loc = [p \in Procs |-> EmptyLoc]
    /\ knowledge_chunks = {}

\* GET /memory/long-term/{user_id}: get_long_term_memories, lines 280-295
GetLongTermMemories ==
    /\ \E args \in ListArgs :
         \E memories \in get_long_term_memories(
                             Caller, args.user_id, args.memory_type,
                             args.min_importance, args.limit) :
            /\ req' = [req EXCEPT ![Caller] = args]
            /\ loc' = [loc EXCEPT ![Caller] =
                          [EmptyLoc EXCEPT !.hits = memories]]
    /\ UNCHANGED <<users, chat_history, vector_memories, now, accepted, pc,
                   tx>>
    /\ UNCHANGED knowledge_chunks

NextList == GetLongTermMemories

SpecList == InitList /\ [][NextList]_vars

\* ------------------------------------------------------------------------
\* The vector store of knowledge chunks: add_chunk and update_chunk, called
\* one after the other, each in a session of its own that its endpoint
\* commits, or rolls back when the call raises
\* ------------------------------------------------------------------------
\* an argument left at its default None
NotGiven == "not given"

ChunkContents == {"tea", "coffee"}

KnowledgeChunk(chunk_uuid, content, summary, embedding) ==
    [uuid |-> chunk_uuid, content |-> content, summary |-> summary,
     embedding |-> embedding]

FreshChunkId == 1 + Largest({ c.uuid : c \in knowledge_chunks })

AddChunkArgs ==
    { [kind |-> "add_chunk", user_id |-> None, session_id |-> None,
       content |-> c] : c \in ChunkContents }

UpdateChunkArgs ==
    { [kind |-> "update_chunk", user_id |-> None, session_id |-> None,
       chunk_uuid |-> u, content |-> c, summary |-> s] :
        u \in 1..MaxChunks, c \in ChunkContents \cup {NotGiven},
        s \in {NotGiven, "short"} }

\* an update that keeps the embedding the chunk had
update_chunk_same_embedding(chunk, content, summary, embedding) ==
    [chunk EXCEPT
       !.content = IF content # NotGiven THEN content ELSE @,
       !.summary = IF summary # NotGiven THEN summary ELSE @]

\* update_chunk, lines 281-295: the fields given are assigned, and with the
\* content the embedding the provider returned for it
update_chunk(chunk, content, summary, embedding) ==
    [chunk EXCEPT
       !.content = IF content # NotGiven THEN content ELSE @,
       !.embedding = IF content # NotGiven THEN embedding ELSE @,
       !.summary = IF summary # NotGiven THEN summary ELSE @]

InitChunk ==
    /\ users = {1, 2}
    /\ chat_history = {}
    /\ vector_memories = {}
    /\ knowledge_chunks = {}
    /\ now = 0
    /\ accepted = 0
    /\ pc = [p \in Procs |-> "idle"]
    /\ req = [p \in Procs |-> NoReq]
    /\ tx = [p \in Procs |-> EmptyTx]
    /\ loc = [p \in Procs |-> EmptyLoc]

\* POST /vector/chunks: add_chunk (lines 52-76) and the commit of the
\* endpoint; a failure of the embedding or of the flush is raised again and
\* the endpoint rolls back
AddChunk ==
    /\ Cardinality(knowledge_chunks) < MaxChunks
    /\ \E args \in AddChunkArgs :
         \E reply \in EmbedReplies(args.content) :
            LET chunk == KnowledgeChunk(FreshChunkId, args.content, "",
                                        reply.vector)
                error == IF reply.raised THEN "embedding"
                         ELSE IF ~FitsColumn(reply.vector) THEN "flush"
                         ELSE "none"
            IN  /\ req' = [req EXCEPT ![Caller] = args]
                /\ loc' = [loc EXCEPT ![Caller] =
                              [EmptyLoc EXCEPT !.error = error]]
                /\ knowledge_chunks' =
                      IF error = "none" THEN knowledge_chunks \cup {chunk}
                      ELSE knowledge_chunks
    /\ UNCHANGED <<users, chat_history, vector_memories, now, accepted, pc,
                   tx>>

\* PATCH /vector/chunks/{chunk_uuid}: update_chunk (lines 276-297) and the
\* commit of the endpoint. The new content is assigned to the loaded object
\* before the embedding is awaited; when that raises, or the flush does, the
\* endpoint rolls back and the object's changes never reach the table
UpdateChunk ==
    /\ \E args \in UpdateChunkArgs :
         \E reply \in EmbedReplies(args.content) :
            LET found == { c \in knowledge_chunks : c.uuid = args.chunk_uuid }
                error == IF found = {} THEN "not found"
                         ELSE IF args.content = NotGiven THEN "none"
                         ELSE IF reply.raised THEN "embedding"
                         ELSE IF ~FitsColumn(reply.vector) THEN "flush"
                         ELSE "none"
            IN  /\ req' = [req EXCEPT ![Caller] = args]
                /\ loc' = [loc EXCEPT ![Caller] =
                              [EmptyLoc EXCEPT !.error = error]]
                /\ knowledge_chunks' =
                      IF error = "none"
                      THEN (knowledge_chunks \ found)
                           \cup { update_chunk(c, args.content, args.summary,
                                               reply.vector) : c \in found }
                      ELSE knowledge_chunks
    /\ UNCHANGED <<users, chat_history, vector_memories, now, accepted, pc,
                   tx>>

NextChunk ==
    \/ AddChunk
    \/ UpdateChunk

SpecChunk == InitChunk /\ [][NextChunk]_vars

\* ------------------------------------------------------------------------
\* get_or_create_user on its own, called by concurrent requests that commit
\* ------------------------------------------------------------------------
\* user_id of the calls: none, an id with no row, the id of a stored user
UserArgs ==
    { [kind |-> "user", user_id |-> u, session_id |-> None, force |-> FALSE] :
        u \in {None, 1, 2} }

InitUser ==
    /\ users = {2}
    /\ chat_history = {}
    /\ vector_memories = {}
    /\ knowledge_chunks = {}
    /\ now = 0
    /\ accepted = 0
    /\ pc = [p \in Procs |-> "idle"]
    /\ req = [p \in Procs |-> NoReq]
    /\ tx = [p \in Procs |-> EmptyTx]
    /\ loc = [p \in Procs |-> EmptyLoc]

\* request q has inserted or updated the users row uid and has not ended
HoldsUser(q, uid) == pc[q] = "commit" /\ loc[q].user_id = uid

\* get_or_create_user, lines 49-81. No id: a row with a uuid4 is flushed.
\* An id whose row the SELECT returns: last_interaction is updated, once no
\* other transaction holds the row. An id with no committed row: the INSERT
\* is flushed, or waits for the transaction that inserted the same id
GetOrCreateUser(p) ==
    /\ FreeSlot(p)
    /\ accepted < MaxUserRequests
    /\ \E args \in UserArgs :
         LET user_id == IF args.user_id = None THEN FreshUserId
                        ELSE args.user_id
             held == \E q \in Procs \ {p} : HoldsUser(q, user_id)
         IN  /\ (user_id \in users) => ~held
             /\ req' = [req EXCEPT ![p] = args]
             /\ loc' = Set(loc, p, "user_id", user_id)
             /\ IF user_id \in users
                THEN /\ UNCHANGED tx
                     /\ pc' = [pc EXCEPT ![p] = "commit"]
                ELSE IF held
                THEN /\ UNCHANGED tx
                     /\ pc' = [pc EXCEPT ![p] = "insert"]
                ELSE /\ tx' = Set(tx, p, "ins_users", {user_id})
                     /\ pc' = [pc EXCEPT ![p] = "commit"]
    /\ accepted' = accepted + 1
    /\ UNCHANGED <<users, chat_history, vector_memories, knowledge_chunks,
                   now>>

\* the INSERT that waited (lines 74-79): the other transaction has ended.
\* If it committed, the primary key rejects the row and the flush raises; if
\* it rolled back, the row is inserted
InsertUser(p) ==
    /\ pc[p] = "insert"
    /\ \A q \in Procs \ {p} : ~HoldsUser(q, loc[p].user_id)
    /\ IF loc[p].user_id \in users
       THEN /\ loc' = Set(loc, p, "error", "flush")
            /\ pc' = [pc EXCEPT ![p] = "failed"]
            /\ UNCHANGED tx
       ELSE /\ tx' = Set(tx, p, "ins_users", {loc[p].user_id})
            /\ pc' = [pc EXCEPT ![p] = "commit"]
            /\ UNCHANGED loc
    /\ UNCHANGED <<users, chat_history, vector_memories, knowledge_chunks,
                   now, accepted, req>>

NextUser ==
    \E p \in Procs :
       \/ GetOrCreateUser(p)
       \/ InsertUser(p)
       \/ Commit(p)
       \/ Rollback(p)

SpecUser == InitUser /\ [][NextUser]_vars

\* ------------------------------------------------------------------------
\* Properties
\* ------------------------------------------------------------------------
\* the ways a call of the Summarization Provider yields no parseable list
FailedReplies == {"raised", "decode_error", "not_list"}

\* request p is over after this step: it committed or was rolled back
Ends(p) == pc[p] # "idle" /\ pc'[p] = "idle"

SameScope(p, q) ==
    /\ loc[p].user_id = loc[q].user_id
    /\ loc[p].session_id = loc[q].session_id

\* C1: when the Summarization Provider call raised or returned no parseable
\* list, the request that ran the consolidation deletes no stored turn and
\* creates no long-term memory.
C1_ProviderFailureDeletesNothing ==
    [][\A p \in Procs :
          (Ends(p) /\ loc[p].llm \in FailedReplies)
          => /\ chat_history \subseteq chat_history'
             /\ \A m \in vector_memories' :
                   \E v \in vector_memories : v.memory_id = m.memory_id]_vars

\* C2: a stored turn disappears only when a request ends whose snapshot (the
\* turns it gave the Summarization Provider) holds the turn's id; a turn
\* committed after the snapshot was read is in no such snapshot and stays.
C2_DeletesOnlySnapshot ==
    [][\A t \in chat_history \ chat_history' :
          \E p \in Procs :
             Ends(p) /\ t.message_id \in MessageIds(loc[p].memories)]_vars

\* a run has executed its DELETE while a turn of its (user, session) that
\* its snapshot does not hold is stored
C2_TurnAppendedDuringRun ==
    \E p \in Procs :
       /\ pc[p] = "commit"
       /\ loc[p].result.consolidated
       /\ tx[p].del_ids # {}
       /\ \E t \in chat_history :
             /\ InScope(t, loc[p].user_id, loc[p].session_id)
             /\ t.message_id \notin MessageIds(loc[p].memories)

\* C3: for one (user, session) at most one consolidation run is between its
\* snapshot read and its delete, and no turn is in the snapshots of two runs.
C3_OneRunPerSession ==
    \A p, q \in Procs :
       (p # q /\ loc[p].user_id # None /\ SameScope(p, q))
       => /\ ~(pc[p] = "delete" /\ pc[q] = "delete")
          /\ MessageIds(loc[p].memories) \cap MessageIds(loc[q].memories) = {}

\* the request's whole work reaches the tables: the long-term memories of
\* its run, the deletion of its snapshot, the turn it appended, the rows of
\* users and vector_memories it wrote before
AllOfRun(p) ==
    /\ Range(loc[p].created_ltm) \subseteq vector_memories'
    /\ \A t \in chat_history' :
          t.message_id \notin MessageIds(loc[p].memories)
    /\ (loc[p].appended # None
        /\ loc[p].appended \notin MessageIds(loc[p].memories))
       => \E t \in chat_history' : t.message_id = loc[p].appended
    /\ tx[p].upd_ltm \subseteq vector_memories'
    /\ tx[p].ins_users \subseteq users'

\* nothing of the request reaches the tables
NoneOfRun(p) ==
    /\ vector_memories' = vector_memories
    /\ chat_history' = chat_history
    /\ users' = users

\* C4: when a request ends, either everything it did reaches the committed
\* tables (the long-term memories of its run are stored, its snapshot turns
\* are gone, the turn it appended is stored unless the run consumed it) or
\* nothing does.
C4_AllOrNothing ==
    [][\A p \in Procs : Ends(p) => AllOfRun(p) \/ NoneOfRun(p)]_vars

\* a run triggered by process_chat has flushed long-term memories and has
\* not yet executed its DELETE
C4_BetweenInsertAndDelete ==
    \E p \in Procs :
       /\ pc[p] = "delete"
       /\ req[p].kind = "chat"
       /\ loc[p].appended # None
       /\ loc[p].created_ltm # <<>>

\* C5 as stated: check_and_consolidate returns a result whose consolidated
\* is false when the count it observed is below the soft threshold and true
\* when the count is at or above it.
C5_ResultFollowsCount ==
    \A p \in Procs :
       (pc[p] = "commit" /\ loc[p].chk_count >= 0)
       => /\ loc[p].result.kind = "dict"
          /\ loc[p].result.consolidated
             <=> loc[p].chk_count >= stm_consolidation_threshold

\* C5 amended: below the soft threshold check_and_consolidate returns None
\* and has deleted and created nothing; at or above it returns the result of
\* consolidate_short_term_memories, whose consolidated is true exactly when
\* the run was forced or its own count was still at or above the threshold.
C5_NoneBelowThreshold ==
    \A p \in Procs :
       (pc[p] = "commit" /\ loc[p].chk_count >= 0)
       => IF loc[p].chk_count < stm_consolidation_threshold
          THEN /\ loc[p].result.kind = "None"
               /\ tx[p].del_ids = {}
               /\ tx[p].ins_ltm = {}
          ELSE /\ loc[p].result.kind = "dict"
               /\ loc[p].result.consolidated
                  <=> (loc[p].force
                       \/ loc[p].stm_count >= stm_consolidation_threshold)

\* check_and_consolidate has returned None for a count of 14
C5_FourteenTurnsReturnNone ==
    \E p \in Procs :
       /\ pc[p] = "commit"
       /\ loc[p].chk_count = stm_consolidation_threshold - 1
       /\ loc[p].result.kind = "None"

\* C6: a count at or above the hard threshold makes check_and_consolidate run
\* the consolidation with force=True, and the result says forced=true; a
\* count from the soft threshold up to the hard one runs it with force=False,
\* and a result of that run says forced=false.
C6_ForcedAtHardThreshold ==
    \A p \in Procs :
       loc[p].chk_count >= stm_consolidation_threshold
       => /\ loc[p].force <=> loc[p].chk_count >= stm_max_threshold
          /\ pc[p] \in {"count", "select", "delete", "commit"}
          /\ pc[p] = "commit"
             => IF loc[p].chk_count >= stm_max_threshold
                THEN /\ loc[p].result.consolidated
                     /\ loc[p].result.forced = "true"
                ELSE loc[p].result.consolidated
                     => loc[p].result.forced = "false"

\* a run started on a count of at least 20 has returned forced=true
C6_ForcedRunReturned ==
    \E p \in Procs :
       /\ pc[p] = "commit"
       /\ loc[p].chk_count >= stm_max_threshold
       /\ loc[p].result.forced = "true"

\* an insight that carries all four keys
HasAllFields(insight) ==
    {"type", "content", "summary", "importance"} \subseteq DOMAIN insight

\* an importance brought into [0, 1]
Within01(importance) ==
    IF importance < 0 THEN 0
    ELSE IF importance > ImportanceOne THEN ImportanceOne
    ELSE importance

\* the reply of p's run was a list of insights that all carry the four
\* keys, and every embedding call succeeded
GoodReply(p) ==
    /\ pc[p] = "commit"
    /\ loc[p].llm = "list"
    /\ loc[p].emb_fail = {}
    /\ \A i \in 1..Len(loc[p].insights) : HasAllFields(loc[p].insights[i])

\* C7: a run whose reply was k well-formed insights and whose embeddings all
\* succeeded has created exactly k long-term memories, new ones, owned by
\* the consolidating user, the i-th carrying the type, content, summary and
\* clamped importance of the i-th insight, and has deleted every turn of its
\* snapshot.
C7_OneMemoryPerInsight ==
    \A p \in Procs :
       GoodReply(p)
       => LET insights == loc[p].insights
              created == loc[p].created_ltm
              k == Len(insights)
          IN  /\ Len(created) = k
              /\ loc[p].result.ltm_created = k
              /\ tx[p].ins_ltm = Range(created)
              /\ Cardinality({ m.memory_id : m \in tx[p].ins_ltm }) = k
              /\ \A m \in tx[p].ins_ltm :
                    \A v \in vector_memories : v.memory_id # m.memory_id
              /\ \A i \in 1..k :
                    /\ created[i].user_id = loc[p].user_id
                    /\ created[i].memory_type = insights[i].type
                    /\ created[i].content = insights[i].content
                    /\ created[i].summary = insights[i].summary
                    /\ created[i].importance = Within01(insights[i].importance)
              /\ MessageIds(loc[p].memories) \subseteq tx[p].del_ids
              /\ loc[p].result.consolidated

\* a run got two well-formed insights, one importance above 1 and one below
\* 0, and all its embeddings
C7_TwoInsightsReturned ==
    \E p \in Procs :
       /\ GoodReply(p)
       /\ Len(loc[p].insights) = 2
       /\ \E i, j \in 1..2 : /\ loc[p].insights[i].importance > ImportanceOne
                             /\ loc[p].insights[j].importance < 0

\* C8: a run whose reply was a valid empty list has deleted every turn of
\* its snapshot, created no long-term memory and reports consolidated=true.
C8_EmptyListStillDeletes ==
    \A p \in Procs :
       (pc[p] = "commit" /\ loc[p].llm = "list" /\ loc[p].insights = <<>>)
       => /\ loc[p].memories # <<>>
          /\ MessageIds(loc[p].memories) \subseteq tx[p].del_ids
          /\ loc[p].created_ltm = <<>>
          /\ tx[p].ins_ltm = {}
          /\ loc[p].result.kind = "dict"
          /\ loc[p].result.consolidated
          /\ loc[p].result.ltm_created = 0

\* a run over fifteen turns or more got a valid empty list
C8_EmptyListReturned ==
    \E p \in Procs :
       /\ pc[p] = "commit"
       /\ loc[p].llm = "list"
       /\ loc[p].insights = <<>>
       /\ Len(loc[p].memories) >= stm_consolidation_threshold

\* C9: the turns given to the Summarization Provider are the turns of the
\* snapshot in ascending order of turn_number.
C9_PromptAscending ==
    \A p \in Procs :
       LET prompt == loc[p].prompt
       IN  /\ Len(prompt) = Len(loc[p].memories)
           /\ Range(prompt) = Range(loc[p].memories)
           /\ \A i, j \in 1..Len(prompt) :
                 i < j => prompt[i].turn_number <= prompt[j].turn_number

\* the provider was given a turn appended later than a turn that follows it
\* in the prompt with a larger turn_number
C9_LaterTurnPlacedEarlier ==
    \E p \in Procs :
       \E i, j \in 1..Len(loc[p].prompt) :
          /\ i < j
          /\ loc[p].prompt[i].turn_number < loc[p].prompt[j].turn_number
          /\ loc[p].prompt[i].message_id > loc[p].prompt[j].message_id

\* C10: the turn process_chat appends has a turn_number larger than that of
\* every other turn of its (user, session), so that no two turns of the pair
\* share a turn_number.
C10_ChatTurnNumberIncreases ==
    \A p \in Procs :
       \A a \in tx[p].ins_turns :
          \A t \in VisibleTurns(p) :
             (t # a /\ t.user_id = a.user_id /\ t.session_id = a.session_id)
             => t.turn_number < a.turn_number

\* ------------------------------------------------------------------------
\* Long-term store
\* ------------------------------------------------------------------------
Bumped(m, time) ==
    [m EXCEPT !.access_count = m.access_count + 1, !.last_accessed = time]

NotReturned(p, rows) == { m \in rows : m.memory_id \notin loc[p].relevant_ltm }

\* C11: search_long_term_memories adds exactly 1 to access_count and sets
\* last_accessed to the current time for every memory it returns, and its
\* flush writes those rows and no other: each memory it does not return keeps
\* its access_count and last_accessed.
C11_SearchBumpsReturnedOnly ==
    [][\A p \in Procs :
         /\ (pc[p] = "idle" /\ pc'[p] = "flush")
               => loc'[p].touched =
                     { Bumped(m, now) : m \in Range(loc'[p].hits) }
         /\ (pc[p] = "flush" /\ pc'[p] = "commit")
               => /\ tx'[p].upd_ltm = loc[p].touched
                  /\ \A m \in loc[p].touched : m \in VisibleMemories(p)'
                  /\ NotReturned(p, VisibleMemories(p)')
                        = NotReturned(p, VisibleMemories(p))
                  /\ vector_memories' = vector_memories]_vars

\* a search has flushed: a fresh memory (0, null) it returned now reads
\* (1, non-null) and a memory of the same user it did not return is as stored
C11_FreshMemoryBumped ==
    \E p \in Procs :
       /\ pc[p] = "commit"
       /\ req[p].kind = "search"
       /\ \E u \in tx[p].upd_ltm, m \in vector_memories :
             /\ m.memory_id = u.memory_id
             /\ m.access_count = 0 /\ m.last_accessed = NoExpiry
             /\ u.access_count = 1 /\ u.last_accessed # NoExpiry
       /\ \E m \in vector_memories :
             /\ m.user_id = req[p].user_id
             /\ m.memory_id \notin loc[p].relevant_ltm
             /\ m \in VisibleMemories(p)

\* the step is the commit of a search that returned the memory
CommitsSearchOf(p, memory_id) ==
    /\ pc[p] = "commit" /\ pc'[p] = "idle"
    /\ req[p].kind = "search"
    /\ memory_id \in loc[p].relevant_ltm
    /\ tx[p].upd_ltm \subseteq vector_memories'

\* C12: the stored access_count of a long-term memory never decreases, and
\* every search that returned the memory adds one to it when it commits,
\* also when another search of the same memory ran at the same time.
C12_NoIncrementLost ==
    [][\A m \in vector_memories, n \in vector_memories' :
          m.memory_id = n.memory_id
             => /\ n.access_count >= m.access_count
                /\ \A p \in Procs :
                      CommitsSearchOf(p, m.memory_id)
                         => n.access_count = m.access_count + 1]_vars

\* the similarity of a stored memory to the query of request p
SimilarityTo(p, m) == Similarity(m.embedding, embed_query(req'[p].query))

\* the stored memories request p asks for
Requested(p) ==
    { m \in vector_memories :
        m.user_id = req'[p].user_id
        /\ m.importance >= req'[p].min_importance }

\* C13: search_long_term_memories(user, query, min_importance, limit)
\* returns only memories of that user with importance >= min_importance, at
\* most limit of them and none twice, in non-increasing similarity order; no
\* such memory it left out is more similar to the query than one it
\* returned; when no memory qualifies the result is the empty sequence.
C13_SearchResult ==
    [][\A p \in Procs :
         (pc[p] = "idle" /\ pc'[p] = "flush")
            => LET hits == loc'[p].hits
               IN  /\ Range(hits) \subseteq Requested(p)
                   /\ Len(hits) <= req'[p].limit
                   /\ \A i, j \in 1..Len(hits) :
                         i < j => /\ hits[i].memory_id # hits[j].memory_id
                                  /\ SimilarityTo(p, hits[i])
                                        >= SimilarityTo(p, hits[j])
                   /\ \A m \in Requested(p) \ Range(hits) :
                         \A i \in 1..Len(hits) :
                            SimilarityTo(p, m) <= SimilarityTo(p, hits[i])
                   /\ Requested(p) = {} => hits = <<>>]_vars

\* a search has returned limit memories, left out a less similar one that
\* qualifies and passed over one of too low an importance that is as similar
\* as the one it returned
C13_LimitAndFilterApplied ==
    \E p \in Procs :
       /\ pc[p] = "flush"
       /\ req[p].kind = "search"
       /\ Len(loc[p].hits) = req[p].limit
       /\ \E m \in vector_memories \ Range(loc[p].hits) :
             /\ m.user_id = req[p].user_id
             /\ m.importance >= req[p].min_importance
             /\ Similarity(m.embedding, embed_query(req[p].query))
                  < Similarity(loc[p].hits[1].embedding,
                               embed_query(req[p].query))
       /\ \E m \in vector_memories :
             /\ m.user_id = req[p].user_id
             /\ m.importance < req[p].min_importance
             /\ Similarity(m.embedding, embed_query(req[p].query))
                  >= Similarity(loc[p].hits[1].embedding,
                               embed_query(req[p].query))

\* a search of a user whose stored memories are all below min_importance
\* has returned the empty sequence
C13_EmptyResult ==
    \E p \in Procs :
       /\ pc[p] = "flush"
       /\ req[p].kind = "search"
       /\ loc[p].hits = <<>>
       /\ loc[p].error = "none"
       /\ \E m \in vector_memories : m.user_id = req[p].user_id

\* long-term memories stored or inserted by a transaction still open
WrittenMemories == vector_memories \cup UNION { tx[p].ins_ltm : p \in Procs }

\* C15: every long-term memory written has an importance within [0, 1], and
\* add_long_term_memory called with importance i writes max(0, min(1, i)):
\* an i outside the range is clamped, not rejected.
C15_ImportanceClamped ==
    /\ \A m \in WrittenMemories :
          m.importance >= 0 /\ m.importance <= ImportanceOne
    /\ \A p \in Procs :
          (req[p].kind = "add" /\ pc[p] = "commit")
             => \E m \in tx[p].ins_ltm :
                   /\ tx[p].ins_ltm = {m}
                   /\ m.importance =
                        (IF req[p].importance < 0 THEN 0
                         ELSE IF req[p].importance > ImportanceOne
                              THEN ImportanceOne
                              ELSE req[p].importance)

\* an add called with an importance above 1 has written a memory of
\* importance 1, next to a stored one that an add with a negative importance
\* wrote with importance 0
C15_OutOfRangeStored ==
    \E p \in Procs :
       /\ req[p].kind = "add"
       /\ pc[p] = "commit"
       /\ req[p].importance > ImportanceOne
       /\ \E m \in tx[p].ins_ltm : m.importance = ImportanceOne
       /\ \E m \in vector_memories :
             m.importance = 0 /\ m.memory_id > MaxLtmSeed

EmbeddingFailedIn(p) ==
    \E i \in loc[p].emb_fail :
       i \in 1..Len(loc[p].insights) /\ IsWellFormed(loc[p].insights[i])

\* C17: a failure of the Embedding Provider during a long-term write reaches
\* the caller of the operation that asked for the write: a consolidation in
\* which the embedding of an insight raised returns no result and deletes
\* no turn.
C17_EmbeddingFailurePropagates ==
    \A p \in Procs :
       EmbeddingFailedIn(p)
          => loc[p].result.kind # "dict" /\ tx[p].del_ids = {}

\* ------------------------------------------------------------------------
\* Short-term functions
\* ------------------------------------------------------------------------
\* the stored turns of the user the caller named (of the session, when it
\* named one) whose expires_at is null or later than now
LiveTurns(args) ==
    { t \in chat_history :
        /\ t.user_id = args.user_id
        /\ args.session_id = None \/ t.session_id = args.session_id
        /\ t.expires_at = NoExpiry \/ t.expires_at > now }

\* the step is a call of that kind that returned
Returns(kind) ==
    /\ req'[Caller].kind = kind
    /\ loc'[Caller].error = "none"
    /\ <<req[Caller], loc[Caller], accepted>>
          # <<req'[Caller], loc'[Caller], accepted'>>

\* C14: the short_term list of get_conversation_context holds non-expired
\* turns of the user and session, min(short_term_limit, number of such
\* turns) of them, in ascending turn_number order, and no such turn left out
\* has a higher turn_number than a listed one; the long_term list is empty
\* when the user has no long-term memory.
C14_ContextLists ==
    [][Returns("context") =>
         LET short_term == loc'[Caller].context
             live == LiveTurns(req'[Caller])
         IN  /\ Range(short_term) \subseteq live
             /\ Len(short_term) =
                   (IF Cardinality(live) < short_term_limit
                    THEN Cardinality(live) ELSE short_term_limit)
             /\ \A i, j \in 1..Len(short_term) :
                   i < j => /\ short_term[i] # short_term[j]
                            /\ short_term[i].turn_number
                                  <= short_term[j].turn_number
             /\ \A t \in live \ Range(short_term) :
                   \A i \in 1..Len(short_term) :
                      t.turn_number <= short_term[i].turn_number
             /\ (\A m \in vector_memories :
                    m.user_id # req'[Caller].user_id)
                   => loc'[Caller].hits = <<>>]_vars

\* a context was returned for a session with more live turns than
\* short_term_limit and a user without long-term memories: short_term_limit
\* turns listed, not in the order they were stored in
C14_ContextOfLongSession ==
    /\ req[Caller].kind = "context"
    /\ loc[Caller].result.kind = "dict"
    /\ Len(loc[Caller].context) = short_term_limit
    /\ Cardinality(LiveTurns(req[Caller])) > short_term_limit
    /\ \E i, j \in 1..Len(loc[Caller].context) :
          i < j /\ loc[Caller].context[i].message_id
                      > loc[Caller].context[j].message_id
    /\ \A m \in vector_memories : m.user_id # req[Caller].user_id
    /\ loc[Caller].hits = <<>>

\* C18: add_short_term_memory sets expires_at = now + ttl for every ttl
\* (expires_in_hours) the caller provides, and leaves expires_at null only
\* when the caller provides none.
C18_ExpiryFollowsTtl ==
    [][Returns("add") =>
         \E t \in chat_history' \ chat_history :
            /\ chat_history' = chat_history \cup {t}
            /\ t.expires_at =
                  (IF req'[Caller].expires_in_hours = NoExpiry THEN NoExpiry
                   ELSE now + req'[Caller].expires_in_hours)]_vars

\* the stored turns of the user (and session) the caller named that have
\* expired and are not purged
ExpiredTurns(args) ==
    { t \in chat_history :
        /\ t.user_id = args.user_id
        /\ args.session_id = None \/ t.session_id = args.session_id
        /\ t.expires_at # NoExpiry /\ t.expires_at <= now }

\* C19: get_short_term_memories(user, session?, limit) returns turns of the
\* user (of the session, when one is given) whose expires_at is null or later
\* than now, min(limit, number of such turns) of them and none twice, in
\* descending turn_number order, and no such turn left out has a higher
\* turn_number than a returned one.
C19_RecentTurns ==
    [][Returns("get") =>
         LET memories == loc'[Caller].memories
             live == LiveTurns(req'[Caller])
         IN  /\ Range(memories) \subseteq live
             /\ Len(memories) <= req'[Caller].limit
             /\ Len(memories) = req'[Caller].limit
                   \/ Len(memories) = Cardinality(live)
             /\ \A i, j \in 1..Len(memories) :
                   i < j => /\ memories[i] # memories[j]
                            /\ memories[i].turn_number
                                  >= memories[j].turn_number
             /\ \A t \in live \ Range(memories) :
                   \A i \in 1..Len(memories) :
                      t.turn_number <= memories[i].turn_number]_vars

\* a get for one session has returned limit turns while a live turn of the
\* session was left out, a turn of the session had expired in that hour and
\* the user had a turn in another session
C19_LimitedGetWithExpiredTurn ==
    /\ req[Caller].kind = "get"
    /\ req[Caller].session_id # None
    /\ Len(loc[Caller].memories) = req[Caller].limit
    /\ LiveTurns(req[Caller]) \ Range(loc[Caller].memories) # {}
    /\ \E t \in ExpiredTurns(req[Caller]) : t.expires_at = now
    /\ \E t \in chat_history :
          t.user_id = req[Caller].user_id
          /\ t.session_id # req[Caller].session_id

\* C20: count_short_term_memories(user, session?) is the number of stored
\* turns of the user (of the session, when one is given) whose expires_at is
\* null or later than now: a turn that has expired and is still stored is
\* not counted.
C20_CountsLiveTurns ==
    [][Returns("count") =>
         loc'[Caller].stm_count
            = Cardinality(LiveTurns(req'[Caller]))]_vars

\* a count was returned while an expired turn of the user and session was
\* still stored, and the count is that of the live ones
C20_ExpiredTurnNotCounted ==
    /\ req[Caller].kind = "count"
    /\ req[Caller].session_id # None
    /\ ExpiredTurns(req[Caller]) # {}
    /\ loc[Caller].stm_count > 0
    /\ loc[Caller].stm_count = Cardinality(LiveTurns(req[Caller]))

\* C21: cleanup_expired_memories deletes exactly the turns whose expires_at
\* is non-null and not later than now and returns their number; permanent
\* and unexpired turns stay as they are; after it no such turn is stored, so
\* a second call with no expiry in between deletes nothing and returns 0.
C21_CleanupDeletesExpired ==
    [][(req'[Caller].kind = "cleanup" /\ now' = now) =>
         LET expired == { t \in chat_history :
                            t.expires_at # NoExpiry /\ t.expires_at <= now }
         IN  /\ chat_history' = chat_history \ expired
             /\ loc'[Caller].deleted_count = Cardinality(expired)
             /\ \A t \in chat_history' :
                   t.expires_at = NoExpiry \/ t.expires_at > now
             /\ expired = {} =>
                   /\ loc'[Caller].deleted_count = 0
                   /\ chat_history' = chat_history]_vars

\* a cleanup has returned 0 after an earlier one removed a seeded turn, with
\* a permanent turn and a turn that expires later still stored
C21_SecondCleanupReturnsZero ==
    /\ req[Caller].kind = "cleanup"
    /\ loc[Caller].deleted_count = 0
    /\ \E i \in 1..(MaxStmSeed - 1) :
          StmSeed(i) \notin chat_history /\ StmSeed(i + 1) \in chat_history
    /\ \E t \in chat_history : t.expires_at = NoExpiry
    /\ \E t \in chat_history : t.expires_at > now

\* ------------------------------------------------------------------------
\* get_long_term_memories
\* ------------------------------------------------------------------------
\* C22: get_long_term_memories(user, type?, min_importance, limit) returns
\* memories of the user (of the type, when one is given) with importance >=
\* min_importance, at most limit of them, sorted by importance descending,
\* and memories of equal importance in the order they were inserted in.
C22_ListSortedStable ==
    [][Returns("list") =>
         LET memories == loc'[Caller].hits
             args == req'[Caller]
         IN  /\ \A i \in 1..Len(memories) :
                   /\ memories[i] \in vector_memories
                   /\ memories[i].user_id = args.user_id
                   /\ args.memory_type # NoType
                         => memories[i].memory_type = args.memory_type
                   /\ memories[i].importance >= args.min_importance
             /\ Len(memories) <= args.limit
             /\ \A i, j \in 1..Len(memories) :
                   i < j =>
                      /\ memories[i].importance >= memories[j].importance
                      /\ memories[i].importance = memories[j].importance
                            => memories[i].memory_id < memories[j].memory_id]_vars

\* ------------------------------------------------------------------------
\* Vector store
\* ------------------------------------------------------------------------
\* C23: after any sequence of adds and updates every stored chunk's
\* embedding is the provider's output for the chunk's current content, and
\* an add or update whose embedding failed leaves the table as it was.
C23_EmbeddingMatchesContent ==
    /\ [](\A c \in knowledge_chunks :
             c.embedding = embed_document(c.content))
    /\ [][(loc'[Caller].error \in {"embedding", "flush"}
           /\ loc'[Caller] # loc[Caller])
             => knowledge_chunks' = knowledge_chunks]_vars

\* an update of the content of a stored chunk has failed at the embedding:
\* the chunk, updated before, holds another content than the one asked for
C23_FailedUpdateLeftChunk ==
    /\ req[Caller].kind = "update_chunk"
    /\ req[Caller].content # NotGiven
    /\ loc[Caller].error = "embedding"
    /\ \E c \in knowledge_chunks :
          /\ c.uuid = req[Caller].chunk_uuid
          /\ c.content # req[Caller].content
          /\ c.summary = "short"

\* ------------------------------------------------------------------------
\* Users
\* ------------------------------------------------------------------------
\* ids of the users rows stored or inserted by a transaction still open
UserIdsInUse == users \cup UNION { tx[q].ins_users : q \in Procs }

EngineState(at) ==
    CASE at \in {"check", "count"} -> "Counting"
      [] at = "select" -> "Summarizing"
      [] at = "delete" -> "Committing"
      [] OTHER -> "Idle"

EngineMoves ==
    { <<"Idle", "Counting">>, <<"Counting", "Counting">>,
      <<"Counting", "Idle">>, <<"Counting", "Summarizing">>,
      <<"Summarizing", "Committing">>, <<"Summarizing", "Idle">>,
      <<"Committing", "Idle">>, <<"Idle", "Idle">> }

\* the run of p stays where it is (another request takes the step) or makes
\* one of the moves
MovesInOrder(p) ==
    \/ pc'[p] = pc[p]
    \/ <<EngineState(pc[p]), EngineState(pc'[p])>> \in EngineMoves

\* C25: each run moves Idle, Counting, then back to Idle or on to
\* Summarizing, Committing and Idle; the Summarization Provider is called
\* only after the count, long-term memories are written only once it has
\* returned and turns are deleted only after that; every run that has
\* started returns to Idle when every await returns.
C25_EngineOrder ==
    /\ [][\A p \in Procs :
            /\ MovesInOrder(p)
            /\ loc'[p].llm # loc[p].llm /\ pc'[p] # "idle"
                  => /\ EngineState(pc[p]) = "Summarizing"
                     /\ loc[p].stm_count >= 0
            /\ tx'[p].ins_ltm # tx[p].ins_ltm /\ pc'[p] # "idle"
                  => /\ EngineState(pc[p]) = "Summarizing"
                     /\ loc'[p].llm # "unset"
            /\ tx'[p].del_ids # tx[p].del_ids /\ pc'[p] # "idle"
                  => /\ EngineState(pc[p]) = "Committing"
                     /\ loc[p].llm # "unset"]_vars
    /\ \A p \in Procs : (pc[p] # "idle") ~> (pc[p] = "idle")

\* a run is in Committing: it has counted, the provider has answered and a
\* long-term memory is written, and its DELETE is awaited
C25_RunInCommitting ==
    \E p \in Procs :
       /\ pc[p] = "delete"
       /\ loc[p].stm_count >= stm_consolidation_threshold
       /\ loc[p].llm # "unset"
       /\ tx[p].ins_ltm # {}
       /\ tx[p].del_ids = {}

\* ------------------------------------------------------------------------
\* C26: when the non-expired count is below the soft threshold and the run
\* is not forced, check_and_consolidate and
\* consolidate_short_term_memories call neither provider and change neither
\* store: the request has no provider reply, no insight, no long-term row
\* written and no turn deleted, and the step that found the count low left
\* the stores and everything the request had flushed as they were.
SkippedRun(p) ==
    /\ pc[p] # "idle"
    /\ \/ loc[p].chk_count \in 0..(stm_consolidation_threshold - 1)
       \/ /\ loc[p].stm_count \in 0..(stm_consolidation_threshold - 1)
          /\ ~loc[p].force

C26_BelowThresholdTouchesNothing ==
    /\ [](\A p \in Procs :
            SkippedRun(p)
            => /\ loc[p].llm = "unset"
               /\ loc[p].insights = <<>>
               /\ loc[p].created_ltm = <<>>
               /\ loc[p].emb_fail = {}
               /\ tx[p].ins_ltm = {}
               /\ tx[p].del_ids = {})
    /\ [][\A p \in Procs :
            (~SkippedRun(p) /\ SkippedRun(p)')
            => /\ tx' = tx
               /\ chat_history' = chat_history
               /\ vector_memories' = vector_memories]_vars

\* POST /memory/consolidate without force found one turn less than the
\* threshold and answered "Below threshold"
C26_UnforcedRunBelowThreshold ==
    \E p \in Procs :
       /\ pc[p] = "commit"
       /\ req[p].kind = "consolidate"
       /\ ~loc[p].force
       /\ loc[p].stm_count = stm_consolidation_threshold - 1
       /\ loc[p].result.reason = "Below threshold"

\* ------------------------------------------------------------------------
\* C27: when every append to a (user, session) is followed by
\* check_and_consolidate in the same transaction and the requests do not
\* overlap, the session holds fewer non-expired turns than the soft
\* threshold whenever no request is in progress, and at no time more than
\* the hard threshold (a request in progress counted with what it flushed).
SessionTurns(S, uid, sid) ==
    { t \in S : t.user_id = uid /\ t.session_id = sid /\ NotExpired(t) }

SessionsOf(S) == { <<t.user_id, t.session_id>> : t \in S }

C27_BelowSoftThresholdAfterRequest ==
    /\ Quiet => \A us \in SessionsOf(chat_history) :
                   Cardinality(SessionTurns(chat_history, us[1], us[2]))
                      < stm_consolidation_threshold
    /\ \A p \in Procs : \A us \in SessionsOf(VisibleTurns(p)) :
          Cardinality(SessionTurns(VisibleTurns(p), us[1], us[2]))
             <= stm_max_threshold

\* a chat request, alone, found the session at the soft threshold and
\* consolidated it: what its commit leaves of the session is empty
C27_SessionEmptiedByChat ==
    \E p \in Procs :
       /\ pc[p] = "commit"
       /\ req[p].kind = "chat"
       /\ \A q \in Procs \ {p} : pc[q] = "idle"
       /\ loc[p].chk_count = stm_consolidation_threshold
       /\ SessionTurns(CommittedTurns(p), 1, 1) = {}

\* ------------------------------------------------------------------------
\* C28: consolidate_short_term_memories called with force=true consolidates
\* whenever its SELECT finds a non-expired turn in the scope, whatever the
\* count, and reports consolidated=true and forced=true; when it finds
\* none it reports consolidated=false ("No memories to consolidate"), the
\* Summarization Provider is not called and the request has written and
\* deleted nothing.
ForcedRun(p) == req[p].kind = "consolidate" /\ loc[p].force

ScopeTurns(p) ==
    { t \in VisibleTurns(p) : InScope(t, loc[p].user_id, loc[p].session_id) }

C28_ForcedRunConsolidates ==
    /\ [](\A p \in Procs :
            (ForcedRun(p) /\ pc[p] = "commit")
            => IF loc[p].memories # <<>>
               THEN /\ loc[p].llm # "unset"
                    /\ loc[p].result.kind = "dict"
                    /\ loc[p].result.consolidated
                    /\ loc[p].result.forced = "true"
                    /\ tx[p].del_ids = MessageIds(loc[p].memories)
               ELSE /\ loc[p].llm = "unset"
                    /\ loc[p].result.kind = "dict"
                    /\ ~loc[p].result.consolidated
                    /\ loc[p].result.reason = "No memories to consolidate"
                    /\ tx[p] = EmptyTx)
    /\ [][\A p \in Procs :
            (ForcedRun(p) /\ pc[p] = "select" /\ pc'[p] \in {"delete", "commit"})
            => IF ScopeTurns(p) # {}
               THEN /\ pc'[p] = "delete"
                    /\ Range(loc'[p].memories) = ScopeTurns(p)
               ELSE /\ pc'[p] = "commit"
                    /\ tx' = tx
                    /\ chat_history' = chat_history
                    /\ vector_memories' = vector_memories]_vars

\* a forced run over a single stored turn has consolidated it
C28_ForcedRunOfOneTurn ==
    \E p \in Procs :
       /\ ForcedRun(p)
       /\ pc[p] = "commit"
       /\ loc[p].stm_count = 1
       /\ loc[p].result.consolidated
       /\ loc[p].result.forced = "true"
       /\ loc[p].result.stm_deleted = 1

\* ------------------------------------------------------------------------
\* C29: a consolidation for user U and session S reads, summarises and
\* deletes only turns of U in S (of U in any session when no session is
\* given) and writes long-term memories of U only; when it ends, the turns
\* outside that scope and the long-term memories stored before are as they
\* were, and every long-term memory added is U's.
Owned(t, uid, sid) == t.user_id = uid /\ (sid = None \/ t.session_id = sid)

C29_RunStaysInScope ==
    /\ [](\A p \in Procs :
            req[p].kind = "consolidate"
            => /\ \A i \in 1..Len(loc[p].memories) :
                     Owned(loc[p].memories[i], req[p].user_id, req[p].session_id)
               /\ \A i \in 1..Len(loc[p].prompt) :
                     Owned(loc[p].prompt[i], req[p].user_id, req[p].session_id)
               /\ \A t \in chat_history :
                     t.message_id \in tx[p].del_ids
                     => Owned(t, req[p].user_id, req[p].session_id)
               /\ \A m \in tx[p].ins_ltm : m.user_id = req[p].user_id
               /\ tx[p].upd_ltm = {})
    /\ [][\A p \in Procs :
            (req[p].kind = "consolidate" /\ pc[p] = "select" /\ pc'[p] = "delete")
            => Range(loc'[p].memories) =
                  { t \in VisibleTurns(p) :
                      Owned(t, req[p].user_id, req[p].session_id) }]_vars
    /\ [][\A p \in Procs :
            (req[p].kind = "consolidate" /\ pc[p] = "commit" /\ pc'[p] = "idle")
            => /\ chat_history' \subseteq chat_history
               /\ \A t \in chat_history :
                     ~Owned(t, req[p].user_id, req[p].session_id)
                     => t \in chat_history'
               /\ vector_memories \subseteq vector_memories'
               /\ \A m \in vector_memories' \ vector_memories :
                     m.user_id = req[p].user_id]_vars

\* a run for user 1 and session 1 has committed: that turn is gone, a
\* long-term memory of user 1 is added, and the turn of user 1 in session 2,
\* the turns of user 2 and the memories stored before are all there
C29_OtherSessionAndUserKept ==
    /\ \A q \in Procs : pc[q] = "idle"
    /\ chat_history = { t \in ScopeSeedTurns : ~Owned(t, 1, 1) }
    /\ ScopeSeedMemories \subseteq vector_memories
    /\ \E m \in vector_memories \ ScopeSeedMemories : m.user_id = 1
    /\ \A m \in vector_memories \ ScopeSeedMemories : m.user_id = 1

\* ------------------------------------------------------------------------
\* C30: process_chat assembles the context, then appends the message, then
\* runs check_and_consolidate, then commits: the short_term context it
\* returns holds only turns stored before the append and never the message
\* being processed, the message is flushed before the check and stays the
\* request's until the commit, a consolidation the request runs has the
\* message in its snapshot, and nothing of the request reaches the tables
\* before its commit, its last step.
ChatOrder ==
    { <<"idle", "check">>, <<"check", "count">>, <<"check", "commit">>,
      <<"count", "select">>, <<"count", "commit">>, <<"select", "delete">>,
      <<"select", "commit">>, <<"delete", "commit">>, <<"commit", "idle">>,
      <<"check", "idle">>, <<"count", "idle">>, <<"select", "idle">>,
      <<"delete", "idle">> }

C30_ContextBeforeAppendBeforeCheck ==
    /\ [](\A p \in Procs :
            req[p].kind = "chat"
            => /\ loc[p].appended \notin MessageIds(loc[p].context)
               /\ \E t \in tx[p].ins_turns : t.message_id = loc[p].appended
               /\ \A t \in chat_history : t.message_id # loc[p].appended
               /\ pc[p] \in {"delete", "commit"} /\ tx[p].ins_ltm # {}
                  => loc[p].appended \in MessageIds(loc[p].memories)
               /\ loc[p].llm # "unset"
                  => loc[p].appended \in MessageIds(loc[p].memories))
    /\ [][\A p \in Procs :
            (req[p].kind = "chat" \/ req'[p].kind = "chat")
            => /\ pc'[p] = pc[p] \/ <<pc[p], pc'[p]>> \in ChatOrder
               /\ pc[p] = "idle" /\ pc'[p] = "check"
                  => /\ Range(loc'[p].context) \subseteq chat_history
                     /\ chat_history' = chat_history
               /\ pc[p] # "idle" /\ pc'[p] # "idle"
                  => /\ loc'[p].context = loc[p].context
                     /\ loc'[p].appended = loc[p].appended
               /\ pc[p] # pc'[p] /\ pc[p] # "commit"
                  => /\ chat_history' = chat_history
                     /\ vector_memories' = vector_memories
                     /\ users' = users]_vars

\* a chat request read its five most recent turns as context, appended its
\* message, found the session at a threshold and took the message into the
\* snapshot it consolidated
C30_MessageInSnapshotNotInContext ==
    \E p \in Procs :
       /\ req[p].kind = "chat"
       /\ pc[p] = "commit"
       /\ loc[p].result.consolidated
       /\ Len(loc[p].context) = short_term_limit
       /\ loc[p].appended \in MessageIds(loc[p].memories)
       /\ loc[p].appended \in tx[p].del_ids

====
